---- MODULE Spec2Model ----
(***************************************************************************)
(* A model of server.py: the Server class of the socket adventure game.    *)
(*                                                                         *)
(* Spec is serve(): connect, greet, push_output, then get_input, route and *)
(* push_output in turn until self.done, then the two close() calls, with a *)
(* client that sends a byte stream which recv returns in pieces of at most *)
(* BYTES bytes.  RouterSpec is route() called directly, on any line and in *)
(* any state, by a caller that has put the line into input_buffer.         *)
(*                                                                         *)
(* Text that comes from the client (the byte stream, get_input's           *)
(* `received`, input_buffer, the command and the argument) is a sequence   *)
(* of one-character strings, so that strip, split and join are computed    *)
(* character by character as Python computes them.  Text the server builds *)
(* (output_buffer, the frames it sends) is a string; Str embeds a          *)
(* character sequence into one, as str.format does.  The client alphabet   *)
(* is ASCII, where utf8 decoding maps one byte to one character.           *)
(*                                                                         *)
(* The client ends its stream by closing its sending side: recv then       *)
(* returns b'' once all it sent has been read.  sendall is taken to        *)
(* succeed: the client keeps reading.                                      *)
(***************************************************************************)
EXTENDS Integers, Sequences, FiniteSets, TLC

\* ------------------------------------------------------------------ bounds

\* The number of newline-terminated lines in a client byte stream.
MaxLines == 2

\* The number of times serve() is called on one Server object.
MaxServes == 2

\* ------------------------------------------------------- class attributes

game_name == "Realms of Venture"

\* room_dict in which two rooms carry the same wallpaper.
room_dict_twin ==
    (0 :> "You are in the room with the white wallpaper") @@
    (1 :> "You are in the room with the green wallpaper") @@
    (2 :> "You are in the room with the green wallpaper") @@
    (3 :> "You are in the room with the mauve wallpaper")

room_dict ==
    (0 :> "You are in the room with the white wallpaper") @@
    (1 :> "You are in the room with the green wallpaper") @@
    (2 :> "You are in the room with the brown wallpaper") @@
    (3 :> "You are in the room with the mauve wallpaper")

BYTES == 16

\* ------------------------------------------------------------ str helpers

\* The characters str.strip() removes (the ASCII ones this alphabet has).
Whitespace == {" ", "\t", "\n", "\r", "\f"}

\* The text of a character sequence: what '{}'.format(s) embeds.
RECURSIVE Str(_)
Str(s) == IF s = <<>> THEN "" ELSE s[1] \o Str(Tail(s))

\* c in s, for a character c.
Contains(s, c) == \E i \in 1..Len(s) : s[i] = c

\* s.lstrip(), s.rstrip() and s.strip().
RECURSIVE lstrip(_)
lstrip(s) ==
    IF s # <<>> /\ Head(s) \in Whitespace THEN lstrip(Tail(s)) ELSE s

RECURSIVE rstrip(_)
rstrip(s) ==
    IF s # <<>> /\ s[Len(s)] \in Whitespace
    THEN rstrip(SubSeq(s, 1, Len(s) - 1))
    ELSE s

strip(s) == rstrip(lstrip(s))

\* The k-th smallest of a set of integers.
Nth(S, k) == CHOOSE i \in S : Cardinality({ j \in S : j < i }) = k - 1

\* re.split('\s+', s) of stripped text: the items between runs of whitespace.
split_ws(s, sep) ==
    LET first == { i \in 1..Len(s) :
                       s[i] \notin Whitespace /\ (i = 1 \/ s[i - 1] \in Whitespace) }
        last  == { i \in 1..Len(s) :
                       s[i] \notin Whitespace /\ (i = Len(s) \/ s[i + 1] \in Whitespace) }
    IN  IF first = {} THEN <<s>>
        ELSE [k \in 1..Cardinality(first) |-> SubSeq(s, Nth(first, k), Nth(last, k))]

\* s.split(sep) for a one-character separator: every occurrence of sep
\* separates two items, so two adjacent separators enclose an empty item and
\* the split of the empty text is one empty item.  The k-th item lies between
\* the (k-1)-th and the k-th separator, the ends of s standing for the
\* separators before the first item and after the last.
split(s, sep) ==
    LET cuts == {0} \cup { i \in 1..Len(s) : s[i] = sep } \cup {Len(s) + 1}
    IN  [k \in 1..(Cardinality(cuts) - 1) |->
             SubSeq(s, Nth(cuts, k) + 1, Nth(cuts, k + 1) - 1)]

\* sep.join(items): the items in order, sep between two neighbours.
join(sep, items) ==
    LET joined[k \in 1..Len(items)] ==
            IF k = 1 THEN items[1] ELSE joined[k - 1] \o <<sep>> \o items[k]
    IN  IF items = <<>> THEN <<>> ELSE joined[Len(items)]

\* --------------------------------------------------------- client's text

w_move  == <<"m", "o", "v", "e">>
w_say   == <<"s", "a", "y">>
w_quit  == <<"q", "u", "i", "t">>
w_jump  == <<"j", "u", "m", "p">>
w_north == <<"n", "o", "r", "t", "h">>
w_south == <<"s", "o", "u", "t", "h">>
w_east  == <<"e", "a", "s", "t">>
w_west  == <<"w", "e", "s", "t">>
w_up    == <<"u", "p">>
w_hi    == <<"h", "i">>
w_its   == <<"i", "t", "'", "s">>
SP  == <<" ">>
TAB == <<"\t">>
NL  == <<"\n">>

Directions == {w_north, w_south, w_east, w_west}

\* The line of a command and its argument, one space between them.
Cmd(command, argument) == command \o SP \o argument

\* ------------------------------------------------------------------ state

VARIABLES
    room,               \* self.room
    done,               \* self.done
    input_buffer,       \* self.input_buffer
    output_buffer,      \* self.output_buffer
    socket,             \* self.socket: "None", "listening" or "closed"
    client_connection,  \* self.client_connection: "None", "open" or "closed"
    pc,                 \* where serve() stands; "api" when methods are called directly
    received,           \* get_input's local `received`
    stream,             \* every byte the client sends on the connection
    pos,                \* how many of them recv has returned so far
    peer_closed,        \* the client has closed its sending side
    spin,               \* flips at every recv that returns no bytes
    sent,               \* the frames sendall has sent, in order
    lines,              \* history: each input_buffer route was called on, and the room then
    accepted            \* history: how many connections socket.accept() has returned

vars == <<room, done, input_buffer, output_buffer, socket, client_connection,
          pc, received, stream, pos, peer_closed, spin, sent, lines, accepted>>

session == <<room, done, input_buffer, output_buffer>>
sockets == <<socket, client_connection, accepted>>
network == <<stream, pos, peer_closed, spin>>

\* ---------------------------------------------------------------- methods

\* A method is modelled by the object it leaves: `self` is the record of the
\* four fields the methods read and write.
self ==
    [room |-> room, done |-> done,
     input_buffer |-> input_buffer, output_buffer |-> output_buffer]

\* The fields become those of s.
Becomes(s) ==
    /\ room' = s.room
    /\ done' = s.done
    /\ input_buffer' = s.input_buffer
    /\ output_buffer' = s.output_buffer

room_description(room_number) == room_dict[room_number]

\* greet() that leaves the room's description out.
greet_bare(s) ==
    [s EXCEPT !.output_buffer = "Welcome to " \o game_name \o "! "]

greet(s) ==
    [s EXCEPT !.output_buffer =
                  "Welcome to " \o game_name \o "! " \o room_description(s.room)]

\* valid_moves without the way back from room 3.
valid_moves_oneway ==
    (<<0, "north">> :> 3) @@ (<<0, "west">> :> 1) @@ (<<0, "east">> :> 2) @@
    (<<1, "east">> :> 0) @@ (<<2, "west">> :> 0)

valid_moves ==
    (<<0, "north">> :> 3) @@ (<<0, "west">> :> 1) @@ (<<0, "east">> :> 2) @@
    (<<1, "east">> :> 0) @@ (<<2, "west">> :> 0) @@ (<<3, "south">> :> 0)

\* move() that describes the room moved to without entering it.
move_stay(s, argument) ==
    IF <<s.room, Str(argument)>> \in DOMAIN valid_moves
    THEN [s EXCEPT !.output_buffer =
                       room_description(valid_moves[<<s.room, Str(argument)>>])]
    ELSE [s EXCEPT !.output_buffer = "Not a valid move! Please try again."]

\* move() whose else branch writes no reply.
move_silent(s, argument) ==
    IF <<s.room, Str(argument)>> \in DOMAIN valid_moves
    THEN LET moved == [s EXCEPT !.room = valid_moves[<<s.room, Str(argument)>>]]
         IN  [moved EXCEPT !.output_buffer = room_description(moved.room)]
    ELSE s

\* move() whose else branch puts the player nowhere.
move_lost(s, argument) ==
    IF <<s.room, Str(argument)>> \in DOMAIN valid_moves
    THEN LET moved == [s EXCEPT !.room = valid_moves[<<s.room, Str(argument)>>]]
         IN  [moved EXCEPT !.output_buffer = room_description(moved.room)]
    ELSE [s EXCEPT !.room = -1,
                   !.output_buffer = "Not a valid move! Please try again."]

move(s, argument) ==
    IF <<s.room, Str(argument)>> \in DOMAIN valid_moves
    THEN LET moved == [s EXCEPT !.room = valid_moves[<<s.room, Str(argument)>>]]
         IN  [moved EXCEPT !.output_buffer = room_description(moved.room)]
    ELSE [s EXCEPT !.output_buffer = "Not a valid move! Please try again."]

\* say() that sends the player back to the first room.
say_home(s, argument) ==
    [s EXCEPT !.room = 0, !.output_buffer = "You say, '" \o Str(argument) \o "'"]

\* say() that appends to output_buffer.
say_concat(s, argument) ==
    [s EXCEPT !.output_buffer = @ \o "You say, '" \o Str(argument) \o "'"]

say(s, argument) ==
    [s EXCEPT !.output_buffer = "You say, '" \o Str(argument) \o "'"]

\* quit() that refuses an argument.
quit_bare(s, argument) ==
    IF argument = <<>>
    THEN [s EXCEPT !.done = TRUE, !.output_buffer = "Goodbye!"]
    ELSE [s EXCEPT !.output_buffer = "Not a valid command."]

\* quit() that flips self.done.
quit_toggle(s, argument) ==
    [s EXCEPT !.done = ~s.done, !.output_buffer = "Goodbye!"]

quit(s, argument) ==
    [s EXCEPT !.done = TRUE, !.output_buffer = "Goodbye!"]

\* The keys of route's routing_dict.
routing_dict == {"quit", "move", "say"}

\* route's `command` and `arguments`: received = input_buffer.split(' '),
\* command = received.pop(0), arguments = ' '.join(received).
command_of(buffer) == Head(split(buffer, " "))

\* arguments = received[0] after the pop: the first word alone.
arguments_first(buffer) ==
    IF Tail(split(buffer, " ")) = <<>> THEN <<>> ELSE Head(Tail(split(buffer, " ")))

arguments_of(buffer) == join(" ", Tail(split(buffer, " ")))

\* route() without the else branch: an unknown command writes no reply.
route_stale(s) ==
    IF Str(command_of(s.input_buffer)) \in routing_dict
    THEN CASE Str(command_of(s.input_buffer)) = "quit" ->
                  quit(s, arguments_of(s.input_buffer))
           [] Str(command_of(s.input_buffer)) = "move" ->
                  move(s, arguments_of(s.input_buffer))
           [] Str(command_of(s.input_buffer)) = "say" ->
                  say(s, arguments_of(s.input_buffer))
    ELSE s

\* route() whose lookup falls back on quit: routing_dict.get(command, self.quit).
route_fallback(s) ==
    CASE Str(command_of(s.input_buffer)) = "move" ->
             move(s, arguments_of(s.input_buffer))
      [] Str(command_of(s.input_buffer)) = "say" ->
             say(s, arguments_of(s.input_buffer))
      [] OTHER -> quit(s, arguments_of(s.input_buffer))

\* route().  command and arguments are locals, assigned once: the one-element
\* sets bind them to their values.
route(s) ==
    LET dispatched(command, arguments) ==
            IF Str(command) \in routing_dict
            THEN CASE Str(command) = "quit" -> quit(s, arguments)
                   [] Str(command) = "move" -> move(s, arguments)
                   [] Str(command) = "say"  -> say(s, arguments)
            ELSE [s EXCEPT !.output_buffer = "Not a valid command."]
    IN  CHOOSE after \in { dispatched(command, arguments) :
                               command \in {command_of(s.input_buffer)},
                               arguments \in {arguments_of(s.input_buffer)} } : TRUE

\* output_string without the newline that ends the frame.
output_string_open(s) == "OK! " \o s.output_buffer

\* push_output's output_string, before encoding.
output_string(s) == "OK! " \o s.output_buffer \o "\n"

\* ------------------------------------------------------- the client side

\* The lines a client of the served connection types.
ServeLines ==
    { Cmd(w_move, w_north), Cmd(w_say, w_hi) \o <<"\r">>, w_quit, <<>> }

\* The streams of at most n newline-terminated lines.
RECURSIVE StreamsOf(_)
StreamsOf(n) ==
    IF n = 0 THEN { <<>> }
    ELSE StreamsOf(n - 1)
             \cup { s \o l \o NL : s \in StreamsOf(n - 1), l \in ServeLines }

\* What the client sends on a connection: at most MaxLines lines, the last
\* of which it may leave unterminated.
Streams ==
    StreamsOf(MaxLines) \cup { s \o w_say : s \in StreamsOf(MaxLines - 1) }

\* ------------------------------------------------------------------ serve

\* Server.__init__.
InitObject ==
    /\ room = 0
    /\ done = FALSE
    /\ input_buffer = <<>>
    /\ output_buffer = ""
    /\ socket = "None"
    /\ client_connection = "None"

Init ==
    /\ InitObject
    /\ pc = "connect"
    /\ received = <<>>
    /\ stream \in Streams
    /\ pos = 0
    /\ peer_closed = FALSE
    /\ spin = FALSE
    /\ sent = <<>>
    /\ lines = <<>>
    /\ accepted = 0

\* serve(): self.connect().
Connect ==
    /\ pc = "connect"
    /\ socket' = "listening"
    /\ client_connection' = "open"
    /\ accepted' = accepted + 1
    /\ pc' = "greet"
    /\ UNCHANGED <<session, received, network, sent, lines>>

\* serve(): self.greet().
Greet ==
    /\ pc = "greet"
    /\ Becomes(greet(self))
    /\ pc' = "push"
    /\ UNCHANGED <<sockets, received, network, sent, lines>>

\* serve(): self.push_output(), after greet and after route.
PushOutput ==
    /\ pc = "push"
    /\ sent' = Append(sent, output_string(self))
    /\ pc' = "while"
    /\ UNCHANGED <<session, sockets, received, network, lines>>

\* serve(): `while not self.done` found true; get_input() starts.
GetInput ==
    /\ pc = "while"
    /\ ~done
    /\ received' = <<>>
    /\ pc' = "recv"
    /\ UNCHANGED <<session, sockets, network, sent, lines>>

\* What client_connection.recv(BYTES) may return: a non-empty piece of at
\* most BYTES bytes of what the client has sent; nothing once the client has
\* closed and all it sent has been read; otherwise recv blocks.
RecvResults ==
    IF pos < Len(stream)
    THEN { SubSeq(stream, pos + 1, pos + n) :
               n \in 1..(IF Len(stream) - pos < BYTES THEN Len(stream) - pos ELSE BYTES) }
    ELSE IF peer_closed THEN { <<>> } ELSE {}

\* get_input(): one turn of `while '\n' not in received`, and, when the
\* loop ends with it, the assignment to input_buffer.
Recv ==
    /\ pc = "recv"
    /\ \E chunk \in RecvResults :
         /\ pos' = pos + Len(chunk)
         /\ spin' = IF chunk = <<>> THEN ~spin ELSE spin
         /\ IF Contains(received \o chunk, "\n")
            THEN /\ input_buffer' = strip(received \o chunk)
                 /\ received' = <<>>
                 /\ pc' = "route"
            ELSE /\ received' = received \o chunk
                 /\ pc' = "recv"
                 /\ UNCHANGED input_buffer
    /\ UNCHANGED <<room, done, output_buffer, sockets, stream, peer_closed, sent, lines>>

\* serve() that breaks out of its loop as soon as route() has set self.done.
Route_break ==
    /\ pc = "route"
    /\ Becomes(route(self))
    /\ lines' = Append(lines, [line |-> input_buffer, room |-> room])
    /\ pc' = IF done' THEN "while" ELSE "push"
    /\ UNCHANGED <<sockets, received, network, sent>>

\* serve(): self.route().
Route ==
    /\ pc = "route"
    /\ Becomes(route(self))
    /\ lines' = Append(lines, [line |-> input_buffer, room |-> room])
    /\ pc' = "push"
    /\ UNCHANGED <<sockets, received, network, sent>>

\* serve(): the loop is over; self.client_connection.close().
CloseClient ==
    /\ pc = "while"
    /\ done
    /\ client_connection' = "closed"
    /\ pc' = "close_socket"
    /\ UNCHANGED <<session, socket, accepted, received, network, sent, lines>>

\* serve(): self.socket.close(), and serve returns.
CloseSocket ==
    /\ pc = "close_socket"
    /\ socket' = "closed"
    /\ pc' = "returned"
    /\ UNCHANGED <<session, client_connection, accepted, received, network, sent, lines>>

\* The client closes its sending side; the server sees it once it has read
\* all the client sent.
ClientClose ==
    /\ client_connection = "open"
    /\ ~peer_closed
    /\ pos = Len(stream)
    /\ peer_closed' = TRUE
    /\ UNCHANGED <<session, sockets, pc, received, stream, pos, spin, sent, lines>>

Server ==
    \/ Connect
    \/ Greet
    \/ PushOutput
    \/ GetInput
    \/ Recv
    \/ Route
    \/ CloseClient
    \/ CloseSocket

Next == Server \/ ClientClose

Spec == Init /\ [][Next]_vars

\* The interpreter keeps running serve(): a step of the server that can be
\* taken is taken.  Nothing is assumed of the client.
FairSpec == Spec /\ WF_vars(Server)

\* ------------------------------------------- serve, called more than once

\* What the client of a later connection sends: at most one line.
LaterStreams == StreamsOf(1)

\* serve() has returned and its caller calls it again on the same object:
\* another client connects.
ServeAgain ==
    /\ pc = "returned"
    /\ accepted < MaxServes
    /\ pc' = "connect"
    /\ stream' \in LaterStreams
    /\ pos' = 0
    /\ peer_closed' = FALSE
    /\ UNCHANGED <<session, sockets, received, spin, sent, lines>>

ReuseSpec == Init /\ [][Next \/ ServeAgain]_vars

\* ------------------------------------------------- route, called directly

\* The input lines route() is called on: what get_input can leave in
\* input_buffer, which is stripped text, and, for say, text a caller puts
\* there unstripped.
MoveArguments ==
    Directions \cup { w_up, <<>>, SP \o w_north, w_north \o NL \o Cmd(w_say, w_hi) }

QuitArguments == { <<>>, w_north, SP \o w_hi, Cmd(w_hi, w_hi) }

SayArguments ==
    { <<>>, SP, w_hi, SP \o w_hi, Cmd(w_hi, w_hi), w_its \o SP \o SP \o w_hi }

\* The stripped line of a command and an argument that may be empty.
Line(command, argument) ==
    IF argument = <<>> THEN command ELSE Cmd(command, argument)

RouteLines ==
    { Line(w_move, a) : a \in MoveArguments }
        \cup { Line(w_quit, a) : a \in QuitArguments }
        \cup { Line(w_say, a) : a \in SayArguments }
        \cup { w_jump, Cmd(w_jump, w_north), <<>>,
               w_move \o TAB \o w_north, w_say \o TAB \o w_hi,
               w_quit \o NL \o Cmd(w_move, w_north) }

\* A Server object just constructed, whose route() a caller invokes.
InitRouter ==
    /\ InitObject
    /\ pc = "api"
    /\ received = <<>>
    /\ stream = <<>>
    /\ pos = 0
    /\ peer_closed = FALSE
    /\ spin = FALSE
    /\ sent = <<>>
    /\ lines = <<>>
    /\ accepted = 0

\* The caller puts a line into input_buffer and calls route().
CallRoute ==
    /\ pc = "api"
    /\ \E line \in RouteLines :
         Becomes(route([self EXCEPT !.input_buffer = line]))
    /\ UNCHANGED <<sockets, pc, received, network, sent, lines>>

RouterSpec == InitRouter /\ [][CallRoute]_vars

\* ------------------------------------------------------ claims on route

NotAValidMove == "Not a valid move! Please try again."

\* C1: for every room r and direction d with (r, d) in the transition table,
\* routing "move d" in room r sets the current room to the mapped destination
\* and the reply to that destination's description.
C1_LegalMove ==
    [][\A d \in Directions :
          (input_buffer' = Cmd(w_move, d) /\ <<room, Str(d)>> \in DOMAIN valid_moves)
              => /\ room' = valid_moves[<<room, Str(d)>>]
                 /\ output_buffer' = room_dict[valid_moves[<<room, Str(d)>>]]]_vars

\* "move south" was routed in room 3 and led back to room 0.
C1_Witness ==
    /\ input_buffer = Cmd(w_move, w_south)
    /\ room = 0
    /\ output_buffer = room_dict[0]

\* C2: for every room r and move argument a with (r, a) not in the transition
\* table (a direction with no exit from r, an unknown token, no argument),
\* routing "move a" in room r leaves the room and the termination flag as
\* they were and replies "Not a valid move! Please try again.".
C2_IllegalMove ==
    [][\A a \in MoveArguments :
          (input_buffer' = Line(w_move, a) /\ <<room, Str(a)>> \notin DOMAIN valid_moves)
              => /\ room' = room
                 /\ done' = done
                 /\ output_buffer' = NotAValidMove]_vars

\* "move north" was routed in room 3, which has no exit to the north.
C2_Witness ==
    /\ input_buffer = Cmd(w_move, w_north)
    /\ room = 3
    /\ output_buffer = NotAValidMove

\* C3: routing a line whose command is "quit", whatever argument follows it,
\* sets the termination flag and replies "Goodbye!".
C3_Quit ==
    [][(\E a \in QuitArguments : input_buffer' = Line(w_quit, a))
          => done' /\ output_buffer' = "Goodbye!"]_vars

\* "quit north" was routed.
C3_Witness ==
    /\ input_buffer = Cmd(w_quit, w_north)
    /\ done
    /\ output_buffer = "Goodbye!"

FirstWhitespace(l) ==
    IF \E i \in 1..Len(l) : l[i] \in Whitespace
    THEN CHOOSE i \in 1..Len(l) :
             l[i] \in Whitespace /\ \A j \in 1..(i - 1) : l[j] \notin Whitespace
    ELSE 0

SingleSpaced(l) ==
    IF FirstWhitespace(l) = 0 THEN l
    ELSE Line(SubSeq(l, 1, FirstWhitespace(l) - 1),
              lstrip(SubSeq(l, FirstWhitespace(l) + 1, Len(l))))

\* C10, as claimed: a line is dispatched exactly like the same line with a
\* single space in place of the first whitespace run.
C10_WhitespaceRun ==
    [][\A l \in RouteLines :
          input_buffer' = l =>
              LET same == route([self EXCEPT !.input_buffer = SingleSpaced(l)])
              IN  /\ room' = same.room
                  /\ done' = same.done
                  /\ output_buffer' = same.output_buffer]_vars

\* s.find(c) + 1: the index of the first c in s, 0 when there is none.
Find(s, c) ==
    IF Contains(s, c)
    THEN CHOOSE i \in 1..Len(s) : s[i] = c /\ \A j \in 1..(i - 1) : s[j] # c
    ELSE 0

\* The line up to its first space character, and the line after it.
BeforeFirstSpace(l) ==
    IF Find(l, " ") = 0 THEN l ELSE SubSeq(l, 1, Find(l, " ") - 1)

AfterFirstSpace(l) ==
    IF Find(l, " ") = 0 THEN <<>> ELSE SubSeq(l, Find(l, " ") + 1, Len(l))

\* The handler of a command, applied to an argument.
Handled(s, command, argument) ==
    CASE Str(command) = "quit" -> quit(s, argument)
      [] Str(command) = "move" -> move(s, argument)
      [] Str(command) = "say"  -> say(s, argument)
      [] OTHER -> [s EXCEPT !.output_buffer = "Not a valid command."]

\* C10, amended: route splits the line at its first space character: the
\* command is everything before that one space and the argument everything
\* after it, further spaces included; a tab does not separate.
C10_FirstSpace ==
    [][\A l \in RouteLines :
          input_buffer' = l =>
              LET s == [self EXCEPT !.input_buffer = l]
                  h == Handled(s, BeforeFirstSpace(l), AfterFirstSpace(l))
              IN  /\ command_of(l) = BeforeFirstSpace(l)
                  /\ arguments_of(l) = AfterFirstSpace(l)
                  /\ room' = h.room
                  /\ done' = h.done
                  /\ output_buffer' = h.output_buffer]_vars

\* "move", two spaces, "north" was routed in room 0 and rejected as a move.
C10_Witness ==
    /\ input_buffer = w_move \o SP \o SP \o w_north
    /\ room = 0
    /\ ~done
    /\ output_buffer = NotAValidMove

\* C11: routing a line whose command is "say" leaves the current room and
\* the termination flag as they were, for every argument: none, a word,
\* several words, a single space.
C11_SayKeepsState ==
    [][(\E a \in SayArguments : input_buffer' = Line(w_say, a))
          => room' = room /\ done' = done]_vars

\* "say", a space and a space more was routed in room 3 of an active session.
C11_Witness ==
    /\ input_buffer = Line(w_say, SP)
    /\ room = 3
    /\ ~done
    /\ output_buffer = "You say, ' '"

C13_UnknownCommand ==
    [][\A l \in RouteLines :
          (input_buffer' = l /\ Str(BeforeFirstSpace(l)) \notin {"move", "say", "quit"})
              => /\ output_buffer' = "Not a valid command."
                 /\ room' = room
                 /\ done' = done]_vars

\* The empty line was routed in room 2.
C13_Witness ==
    /\ input_buffer = <<>>
    /\ room = 2
    /\ output_buffer = "Not a valid command."

Rooms == 0..3

\* C15: each of the rooms 0, 1, 2, 3 has a description that is not empty, no
\* two rooms share a description or a greeting, and a reply that is a room's
\* description is the description of the current room.
C15_DistinctDescriptions ==
    /\ \A r \in Rooms : r \in DOMAIN room_dict /\ room_description(r) # ""
    /\ \A r1, r2 \in Rooms :
           r1 # r2 =>
               /\ room_description(r1) # room_description(r2)
               /\ greet([self EXCEPT !.room = r1]).output_buffer
                      # greet([self EXCEPT !.room = r2]).output_buffer
    /\ \A r \in Rooms : output_buffer = room_description(r) => room = r

\* "move east" was routed in room 0: the reply is the description of room 2.
C15_Witness ==
    /\ input_buffer = Cmd(w_move, w_east)
    /\ room = 2
    /\ output_buffer = room_description(2)

\* C16: whatever lines have been routed, the current room is one of 0, 1, 2,
\* 3, a key of room_dict, so the description of the current room exists.
C16_RoomInRange == room \in Rooms /\ room \in DOMAIN room_dict

\* "move up" was routed in room 1 and rejected.
C16_Witness ==
    /\ input_buffer = Cmd(w_move, w_up)
    /\ room = 1
    /\ output_buffer = NotAValidMove

\* C17: the termination flag is false in a new session, and a call of route
\* that turns it from false to true is a call on a line whose command is
\* "quit".
C17_OnlyQuitTerminates ==
    /\ ~done
    /\ [][(~done /\ done') => Str(BeforeFirstSpace(input_buffer')) = "quit"]_vars

\* "quit" was routed in room 1.
C17_Witness ==
    /\ input_buffer = w_quit
    /\ room = 1
    /\ done

\* The transitions of the map in the class docstring, and the direction that
\* undoes a direction.
ReferenceTopology ==
    { <<0, "west", 1>>, <<1, "east", 0>>, <<0, "east", 2>>, <<2, "west", 0>>,
      <<0, "north", 3>>, <<3, "south", 0>> }

Opposite(d) ==
    CASE d = w_north -> w_south
      [] d = w_south -> w_north
      [] d = w_east  -> w_west
      [] d = w_west  -> w_east

\* C18: the legal transitions are those of the reference topology, and after
\* a successful "move d" a move in the opposite direction succeeds and leads
\* back to the room the first move started from.
C18_Reversible ==
    [][/\ { <<k[1], k[2], valid_moves[k]>> : k \in DOMAIN valid_moves }
             = ReferenceTopology
       /\ \A d \in Directions :
              (input_buffer' = Cmd(w_move, d) /\ <<room, Str(d)>> \in DOMAIN valid_moves)
                  => LET back == route([room |-> room', done |-> done',
                                        input_buffer |-> Cmd(w_move, Opposite(d)),
                                        output_buffer |-> output_buffer'])
                     IN  /\ room' # room
                         /\ back.room = room
                         /\ back.output_buffer = room_description(room)]_vars

\* "move east" was routed in room 1 of an active session and led back to
\* room 0.
C18_Witness ==
    /\ input_buffer = Cmd(w_move, w_east)
    /\ room = 0
    /\ ~done
    /\ output_buffer = room_description(0)

\* Replies an earlier call can have left in output_buffer.
PriorReplies ==
    { "", "Goodbye!", NotAValidMove, "Not a valid command.", "You say, 'hi'" }
        \cup { room_description(r) : r \in Rooms }

\* C19: the room, the termination flag and the frame that follow a call of
\* route are those of any other session in the same room, with the same
\* flag, given the same line, whatever reply that session's output_buffer
\* held before: route overwrites the buffer.
C19_HistoryFree ==
    [][\A l \in RouteLines :
          input_buffer' = l =>
              \A reply \in PriorReplies :
                  LET other == route([room |-> room, done |-> done,
                                      input_buffer |-> l, output_buffer |-> reply])
                  IN  /\ other.room = room'
                      /\ other.done = done'
                      /\ output_string(other)
                             = output_string([output_buffer |-> output_buffer'])]_vars

\* "say hi" was routed in room 1 of a session that had moved and quit before.
C19_Witness ==
    /\ input_buffer = Cmd(w_say, w_hi)
    /\ room = 1
    /\ done
    /\ output_buffer = "You say, 'hi'"

\* ------------------------------------------------------ claims on serve

ClientLines ==
    SubSeq(split(stream, "\n"), 1, Len(split(stream, "\n")) - 1)

\* C6: however the stream is cut into chunks, route is called once per
\* newline-terminated line, in order, on exactly the trimmed content of that
\* line: the k-th call of route is on the k-th line of the stream.
C6_OneLinePerCall ==
    \A k \in 1..Len(lines) :
        /\ k <= Len(ClientLines)
        /\ lines[k].line = strip(ClientLines[k])

GreetingFrame ==
    "OK! Welcome to Realms of Venture! You are in the room with the white wallpaper\n"

\* C7: the first frame sent on the connection is the greeting with the
\* description of room 0, it is sent before any input is read, and every
\* other frame follows an input line of its own.
C7_GreetingFirst ==
    /\ sent = <<>> => (pos = 0 /\ lines = <<>> /\ received = <<>>)
    /\ sent # <<>> => sent[1] = GreetingFrame
    /\ Len(sent) <= 1 + Len(lines)

\* The greeting and the replies to two lines have been sent.
C7_Witness ==
    /\ Len(sent) = 3
    /\ Len(lines) = 2
    /\ sent[1] = GreetingFrame

\* The reply route gives to a line read in a room of an active session.
ReplyTo(l) ==
    route([room |-> l.room, done |-> FALSE,
           input_buffer |-> l.line, output_buffer |-> ""]).output_buffer

\* C8: after the greeting reads and writes alternate: each line read gets
\* exactly one frame "OK! " + reply + "\n", sent before the next line is
\* read, and the k-th reply frame carries route's reply to the k-th line.
C8_Alternation ==
    /\ pc \in {"connect", "greet"} => sent = <<>> /\ lines = <<>>
    /\ pc = "push" => Len(sent) = Len(lines)
    /\ pc \in {"while", "recv", "route", "close_socket", "returned"}
           => Len(sent) = 1 + Len(lines)
    /\ \A k \in 1..Len(lines) :
           k + 1 <= Len(sent) => sent[k + 1] = "OK! " \o ReplyTo(lines[k]) \o "\n"

\* Two lines were read and answered, the second in another room than the
\* first, and the server is reading again.
C8_Witness ==
    /\ pc = "recv"
    /\ Len(lines) = 2
    /\ Len(sent) = 3
    /\ lines[1].room # lines[2].room

GoodbyeFrame == "OK! Goodbye!\n"

\* C9: once a quit is routed the server sends the "Goodbye!" frame, reads
\* no more input and sends no other frame, and then closes the client
\* connection and the listening socket; neither is closed before the
\* Goodbye frame has been sent.
C9_QuitThenClose ==
    /\ [](done /\ pc # "push" => sent[Len(sent)] = GoodbyeFrame)
    /\ []((client_connection = "closed" \/ socket = "closed")
              => done /\ sent[Len(sent)] = GoodbyeFrame)
    /\ [](socket = "closed" => client_connection = "closed")
    /\ [][done => pos' = pos /\ lines' = lines]_vars
    /\ [][done /\ pc # "push" => sent' = sent]_vars
    /\ (done ~> (client_connection = "closed" /\ socket = "closed"))

\* serve() has returned after a quit: both sockets are closed and the last
\* frame sent is the Goodbye frame.
C9_Witness ==
    /\ pc = "returned"
    /\ done
    /\ client_connection = "closed"
    /\ socket = "closed"
    /\ sent[Len(sent)] = GoodbyeFrame
    /\ Len(lines) = 2

\* ------------------------------- claims on serve, called more than once

\* C14: when a connection has just been accepted, the current room is room 0
\* and the termination flag is false, whatever was routed on an earlier
\* connection of the same Server object.
C14_FreshSession == pc = "greet" => (room = 0 /\ ~done)

====
